---- MODULE Spec2Model ----
(***************************************************************************)
(* The compression filter of src/core/channel/compress_filter.c: the       *)
(* channel configuration, the negotiation of a call's algorithm from its   *)
(* outgoing initial metadata, and the drain / compress / forward state     *)
(* machine of a call's outgoing messages.                                  *)
(***************************************************************************)
EXTENDS Integers, Sequences, FiniteSets, TLC

VARIABLES chand, calld, stream, down, caller, last_call, last_done, op_in,
          decided_in, nops, md_sent, msg_open, crashed, died_on, destroyed,
          unreffed, msg_compress, hinted

vars == <<chand, calld, stream, down, caller, last_call, last_done, op_in,
          decided_in, nops, md_sent, msg_open, crashed, died_on, destroyed,
          unreffed, msg_compress, hinted>>

(***************************************************************************)
(* Bounds of the model.                                                    *)
(***************************************************************************)
\* transport stream ops handed to the filter on the call
MaxOps == 2
\* entries of an outgoing initial-metadata batch
MaxBatch == 1
\* declared length of a message, and bytes an upstream byte stream holds
MaxLength == 2

\* slices one byte stream hands out (never the limit for a stream that
\* delivers its bytes in non-empty slices)
MaxChunks == MaxLength + 1

(***************************************************************************)
(* grpc_compression_algorithm and the write flags.                         *)
(***************************************************************************)
GRPC_COMPRESS_NONE == 0
GRPC_COMPRESS_DEFLATE == 1
GRPC_COMPRESS_GZIP == 2
GRPC_COMPRESS_ALGORITHMS_COUNT == 3

Algorithms == 0 .. (GRPC_COMPRESS_ALGORITHMS_COUNT - 1)

\* the flag words are bitsets: a set of the bits that are set
GRPC_WRITE_BUFFER_HINT == "GRPC_WRITE_BUFFER_HINT"
GRPC_WRITE_NO_COMPRESS == "GRPC_WRITE_NO_COMPRESS"
GRPC_WRITE_INTERNAL_COMPRESS == "GRPC_WRITE_INTERNAL_COMPRESS"

GRPC_COMPRESS_REQUEST_ALGORITHM_KEY == "grpc-internal-encoding-request"

\* the names an application can put under the request key
Names == {"identity", "deflate", "gzip", "snappy"}

\* grpc_compression_algorithm_name: NoName when the algorithm is unknown
NoName == "?"

grpc_compression_algorithm_name(algorithm) ==
    CASE algorithm = GRPC_COMPRESS_NONE -> "identity"
      [] algorithm = GRPC_COMPRESS_DEFLATE -> "deflate"
      [] algorithm = GRPC_COMPRESS_GZIP -> "gzip"
      [] OTHER -> NoName

\* grpc_compression_algorithm_parse: [ok, algorithm]; the out-parameter is
\* left alone (old) when the name is unknown
grpc_compression_algorithm_parse(name, old) ==
    CASE name = "identity" -> [ok |-> TRUE, algorithm |-> GRPC_COMPRESS_NONE]
      [] name = "deflate" -> [ok |-> TRUE, algorithm |-> GRPC_COMPRESS_DEFLATE]
      [] name = "gzip" -> [ok |-> TRUE, algorithm |-> GRPC_COMPRESS_GZIP]
      [] OTHER -> [ok |-> FALSE, algorithm |-> old]

\* grpc_compression_options_is_algorithm_enabled: the bit of the bitset
grpc_compression_options_is_algorithm_enabled(ch, algorithm) ==
    algorithm \in ch.enabled_algorithms_bitset

(***************************************************************************)
(* Metadata elements and batches.                                          *)
(***************************************************************************)
mdelem(key, value) == [key |-> key, value |-> value]

\* an interned string (grpc_mdstr_from_string)
mdstr(str) == [str |-> str]

\* an entry of mdelem_compression_algorithms that init_channel_elem never
\* wrote: the pointer is whatever the allocation held
UninitMdelem == mdelem("<uninitialized>", <<>>)

\* the entries a caller puts in a batch
UserMdelems ==
    {mdelem(GRPC_COMPRESS_REQUEST_ALGORITHM_KEY, <<n>>) : n \in Names}
        \cup {mdelem("user-key", <<"v">>)}

RECURSIVE SeqsUpTo(_, _)
SeqsUpTo(S, n) ==
    IF n = 0 THEN {<<>>}
    ELSE LET shorter == SeqsUpTo(S, n - 1)
         IN shorter \cup {Append(s, x) : s \in {t \in shorter : Len(t) = n - 1},
                                         x \in S}

Batches == SeqsUpTo(UserMdelems, MaxBatch)

\* no element
NoMdelem == mdelem("<null>", <<>>)

\* an op that carries no batch / no message
NoBatch == <<mdelem("<null>", <<>>)>>
NoMessage == [kind |-> "null", id |-> 0, length |-> 0, flags |-> {},
              backing |-> <<>>]

(***************************************************************************)
(* channel_data.                                                           *)
(***************************************************************************)
\* gpr_strjoin_sep over supported_algorithms_names: the names of the enabled
\* algorithms other than GRPC_COMPRESS_NONE, in the order of algo_idx
RECURSIVE supported_algorithms_names(_, _)
supported_algorithms_names(bitset, algo_idx) ==
    IF algo_idx >= GRPC_COMPRESS_ALGORITHMS_COUNT THEN <<>>
    ELSE (IF algo_idx \in bitset /\ algo_idx > 0
          THEN <<grpc_compression_algorithm_name(algo_idx)>>
          ELSE <<>>)
         \o supported_algorithms_names(bitset, algo_idx + 1)

\* init_channel_elem, for the channel args (bitset, default_algorithm); the
\* GPR_ASSERT on the default is the guard ChannelArgs states
init_channel_elem(bitset, default_algorithm) ==
    [enabled_algorithms_bitset |-> bitset,
     default_compression_algorithm |-> default_algorithm,
     mdstr_request_compression_algorithm_key |->
         mdstr(GRPC_COMPRESS_REQUEST_ALGORITHM_KEY),
     mdstr_outgoing_compression_algorithm_key |-> mdstr("grpc-encoding"),
     mdstr_compression_capabilities_key |-> mdstr("grpc-accept-encoding"),
     mdelem_compression_algorithms |->
         [algo_idx \in Algorithms |->
             IF algo_idx \in bitset
             THEN mdelem("grpc-encoding",
                         <<grpc_compression_algorithm_name(algo_idx)>>)
             ELSE UninitMdelem],
     mdelem_accept_encoding |->
         mdelem("grpc-accept-encoding", supported_algorithms_names(bitset, 0))]

\* the channel args for which init_channel_elem returns
ChannelArgs ==
    {a \in [bitset : SUBSET Algorithms, default_algorithm : Algorithms] :
        a.default_algorithm \in a.bitset}

\* destroy_channel_elem: the outcomes [unreffed, crashed], unreffed being the
\* handles it has released, in order. It releases every entry of
\* mdelem_compression_algorithms; releasing one init_channel_elem never wrote
\* is undefined: the process dies there, or whatever the pointer held is
\* released.
destroy_channel_elem(ch) ==
    LET handles ==
            <<ch.mdstr_request_compression_algorithm_key,
              ch.mdstr_outgoing_compression_algorithm_key,
              ch.mdstr_compression_capabilities_key>>
            \o [i \in 1 .. GRPC_COMPRESS_ALGORITHMS_COUNT |->
                    ch.mdelem_compression_algorithms[i - 1]]
            \o <<ch.mdelem_accept_encoding>>
        wild == {i \in DOMAIN handles : handles[i] = UninitMdelem}
        first == CHOOSE i \in wild : \A j \in wild : i <= j
    IN IF wild = {}
       THEN {[unreffed |-> handles, crashed |-> FALSE]}
       ELSE {[unreffed |-> handles, crashed |-> FALSE],
             [unreffed |-> SubSeq(handles, 1, first - 1), crashed |-> TRUE]}

(***************************************************************************)
(* call_data.                                                              *)
(***************************************************************************)
\* a slice: where its bytes come from, and how many they are
Slice(tag, n, len) == [tag |-> tag, n |-> n, len |-> len]

RECURSIVE slices_length(_)
slices_length(slices) ==
    IF slices = <<>> THEN 0
    ELSE Head(slices).len + slices_length(Tail(slices))

\* a closure: the caller's on_complete of op number id, or this filter's
Closure(fn, id) == [fn |-> fn, id |-> id]

\* rest stands for the fields of *op the filter never names
NoOp == [send_initial_metadata |-> NoBatch, send_message |-> NoMessage,
         on_complete |-> Closure("<null>", 0), rest |-> "<null>"]

\* compression_algorithm before anything is stored in it: init_call_elem
\* leaves it as the allocation held it
Uninitialized == -1

\* the values a read of compression_algorithm can give: any algorithm, or no
\* algorithm at all (GRPC_COMPRESS_ALGORITHMS_COUNT), while uninitialized
ReadAlgorithm(cd) ==
    IF cd.compression_algorithm = Uninitialized
    THEN 0 .. GRPC_COMPRESS_ALGORITHMS_COUNT
    ELSE {cd.compression_algorithm}

\* init_call_elem: the fields it sets
init_call_elem ==
    [slices |-> <<>>,
     compression_algorithm |-> Uninitialized,
     has_compression_algorithm |-> 0,
     send_op |-> NoOp,
     send_length |-> 0,
     send_flags |-> {},
     incoming_slice |-> Slice("garbage", 0, 0),
     replacement_stream |-> NoMessage,
     post_send |-> Closure("<null>", 0)]

\* destroy_call_elem: gpr_slice_buffer_destroy
destroy_call_elem(cd) == [cd EXCEPT !.slices = <<>>]

(***************************************************************************)
(* Negotiation.                                                            *)
(***************************************************************************)
\* compression_md_filter, were it to return md for the request entry too
compression_md_filter_keeps(cd, ch, md) ==
    IF md.key = GRPC_COMPRESS_REQUEST_ALGORITHM_KEY
    THEN LET parsed == grpc_compression_algorithm_parse(
                           md.value[1], cd.compression_algorithm)
             a1 == IF ~parsed.ok THEN GRPC_COMPRESS_NONE ELSE parsed.algorithm
             a2 == IF ~grpc_compression_options_is_algorithm_enabled(ch, a1)
                   THEN GRPC_COMPRESS_NONE
                   ELSE a1
         IN [calld |-> [cd EXCEPT !.compression_algorithm = a2,
                                  !.has_compression_algorithm = 1],
             keep |-> TRUE]
    ELSE [calld |-> cd, keep |-> TRUE]

\* compression_md_filter: the call data after it, and the element it returns
\* (keep = FALSE for NULL)
compression_md_filter(cd, ch, md) ==
    IF md.key = GRPC_COMPRESS_REQUEST_ALGORITHM_KEY
    THEN LET parsed == grpc_compression_algorithm_parse(
                           md.value[1], cd.compression_algorithm)
             a1 == IF ~parsed.ok THEN GRPC_COMPRESS_NONE ELSE parsed.algorithm
             a2 == IF ~grpc_compression_options_is_algorithm_enabled(ch, a1)
                   THEN GRPC_COMPRESS_NONE
                   ELSE a1
         IN [calld |-> [cd EXCEPT !.compression_algorithm = a2,
                                  !.has_compression_algorithm = 1],
             keep |-> FALSE]
    ELSE [calld |-> cd, keep |-> TRUE]

\* grpc_metadata_batch_filter with compression_md_filter: every element in
\* order; [calld, batch]
RECURSIVE grpc_metadata_batch_filter(_, _, _)
grpc_metadata_batch_filter(cd, ch, batch) ==
    IF batch = <<>> THEN [calld |-> cd, batch |-> <<>>]
    ELSE LET r == compression_md_filter(cd, ch, Head(batch))
             rest == grpc_metadata_batch_filter(r.calld, ch, Tail(batch))
         IN [calld |-> rest.calld,
             batch |-> (IF r.keep THEN <<Head(batch)>> ELSE <<>>) \o rest.batch]

\* skip_compression, were it to look at the channel default alone
skip_compression_default_only(cd, ch) ==
    ch.default_compression_algorithm = GRPC_COMPRESS_NONE

skip_compression(cd, ch) ==
    IF cd.has_compression_algorithm # 0
    THEN cd.compression_algorithm = GRPC_COMPRESS_NONE
    ELSE ch.default_compression_algorithm = GRPC_COMPRESS_NONE

\* process_send_initial_metadata, were it to fall back to no compression
\* and not to the channel default
process_send_initial_metadata_falls_back_to_none(cd, ch, initial_metadata) ==
    LET f == grpc_metadata_batch_filter(cd, ch, initial_metadata)
        cd1 == IF f.calld.has_compression_algorithm = 0
               THEN [f.calld EXCEPT
                        !.compression_algorithm = GRPC_COMPRESS_NONE,
                        !.has_compression_algorithm = 1]
               ELSE f.calld
        hint == ch.mdelem_compression_algorithms[cd1.compression_algorithm]
        out == [calld |-> cd1,
                batch |-> f.batch \o <<hint, ch.mdelem_accept_encoding>>,
                crashed |-> FALSE]
    IN IF hint = UninitMdelem
       THEN {out, [out EXCEPT !.crashed = TRUE]}
       ELSE {out}

\* process_send_initial_metadata: the outcomes [calld, batch, crashed]. Taking
\* a reference on an element init_channel_elem never wrote is undefined: the
\* process dies, or the batch gains whatever the pointer held.
process_send_initial_metadata(cd, ch, initial_metadata) ==
    LET f == grpc_metadata_batch_filter(cd, ch, initial_metadata)
        cd1 == IF f.calld.has_compression_algorithm = 0
               THEN [f.calld EXCEPT
                        !.compression_algorithm =
                            ch.default_compression_algorithm,
                        !.has_compression_algorithm = 1]
               ELSE f.calld
        hint == ch.mdelem_compression_algorithms[cd1.compression_algorithm]
        out == [calld |-> cd1,
                batch |-> f.batch \o <<hint, ch.mdelem_accept_encoding>>,
                crashed |-> FALSE]
    IN IF hint = UninitMdelem
       THEN {out, [out EXCEPT !.crashed = TRUE]}
       ELSE {out}

(***************************************************************************)
(* The upstream byte stream of a message (grpc_byte_stream), as the filter *)
(* sees it through grpc_byte_stream_next and the got_slice closure. It     *)
(* hands out at most the bytes it declares (length); it may stop before    *)
(* (underflow) and it may fire the closure with success = 0.               *)
(*   state     "idle", "open", "registered" (a got_slice closure is        *)
(*             pending), "ended" (no closure will fire any more)           *)
(*   delivered, chunks, requests, suspended, failed: what has happened to  *)
(*             it: bytes and slices handed out, calls of next, calls of    *)
(*             next that returned 0, a closure fired with success = 0      *)
(***************************************************************************)
IdleStream ==
    [id |-> 0, length |-> 0, delivered |-> 0, chunks |-> 0, state |-> "idle",
     requests |-> 0, suspended |-> 0, failed |-> FALSE]

OpenStream(message) ==
    [IdleStream EXCEPT !.id = message.id, !.length = message.length,
                       !.state = "open"]

\* the sizes the next slice of the stream can have: a part of what is left,
\* and an empty slice once nothing is left
NextSliceLens(st) ==
    IF st.delivered < st.length THEN 1 .. (st.length - st.delivered) ELSE {0}

Deliver(st, len) ==
    [st EXCEPT !.delivered = @ + len, !.chunks = @ + 1, !.state = "open"]

\* grpc_byte_stream_next: the outcomes [ret, slice, stream]. ret = 1 hands a
\* slice out at once; ret = 0 registers the closure, which fires later
\* ("registered") or, the stream having ended, never ("ended").
grpc_byte_stream_next(st) ==
    LET asked == [st EXCEPT !.requests = @ + 1]
        never == [ret |-> 0, slice |-> Slice("garbage", 0, 0),
                  stream |-> [asked EXCEPT !.state = "ended",
                                           !.suspended = @ + 1]]
    IN IF st.state = "ended" \/ st.chunks >= MaxChunks
       THEN {never}
       ELSE {[ret |-> 1, slice |-> Slice("chunk", st.chunks + 1, len),
              stream |-> Deliver(asked, len)] : len \in NextSliceLens(st)}
            \cup {[ret |-> 0, slice |-> Slice("garbage", 0, 0),
                   stream |-> [asked EXCEPT !.state = "registered",
                                            !.suspended = @ + 1]]}
            \cup {never}

\* the stream broke its contract: it failed, or it ended short of its length
Misbehaved(st) ==
    st.failed \/ (st.state = "ended" /\ st.delivered < st.length)

(***************************************************************************)
(* The compression transform (grpc_msg_compress): for a real algorithm it  *)
(* either declines, or yields an output shorter than its input.            *)
(***************************************************************************)
grpc_msg_compress(algorithm, slices) ==
    {[did_compress |-> 0, output |-> <<>>]}
    \cup (IF algorithm \in {GRPC_COMPRESS_DEFLATE, GRPC_COMPRESS_GZIP}
          THEN {[did_compress |-> 1,
                 output |-> <<Slice("compressed", algorithm, zlen)>>] :
                    zlen \in 0 .. (slices_length(slices) - 1)}
          ELSE {})

\* grpc_slice_buffer_stream_init
grpc_slice_buffer_stream_init(id, slices, flags) ==
    [kind |-> "replacement", id |-> id, length |-> slices_length(slices),
     flags |-> flags, backing |-> slices]

(***************************************************************************)
(* The send path. w is what the handlers read and write: the call data,    *)
(* the upstream stream, the ops handed to the next filter (down), and      *)
(* whether the process died. Each handler yields the set of its outcomes.  *)
(***************************************************************************)
\* grpc_call_next_op: via tells the op of the caller ("op") from the call
\* data's copy of it ("send_op"). What the next filter cannot see is kept
\* with the op: the op as the caller handed it in (from), and the call's
\* algorithm when the filter chose between lines 230 and 236 (decided).
grpc_call_next_op(w, op, via) ==
    [w EXCEPT !.down = @ \cup {[op |-> op, via |-> via, from |-> w.from,
                                decided |-> w.decided]}]

\* a call of grpc_msg_compress, as finish_send_message makes it: the message
\* it is made for (id), the algorithm and the length of the buffer it is
\* given (input), the length the message declared (expected), and how often
\* it has been made for that message (calls)
NoCompress == [id |-> 0, algorithm |-> 0, input |-> 0, expected |-> 0,
               calls |-> 0]

Compressed(before, cd, algorithm) ==
    [id |-> cd.send_op.send_message.id,
     algorithm |-> algorithm,
     input |-> slices_length(cd.slices),
     expected |-> cd.send_length,
     calls |-> IF before.id = cd.send_op.send_message.id
               THEN before.calls + 1
               ELSE 1]

\* finish_send_message, were it to splice send_done in before it saved the
\* op's on_complete in post_send
finish_send_message_loses_callback(w) ==
    UNION {
     {LET cd == w.calld
          cd1 == IF r.did_compress # 0
                 THEN [cd EXCEPT !.slices = r.output,
                                 !.send_flags =
                                     @ \cup {GRPC_WRITE_INTERNAL_COMPRESS}]
                 ELSE cd
          replacement == grpc_slice_buffer_stream_init(
                             cd.send_op.send_message.id, cd1.slices,
                             cd1.send_flags)
          cd2 == [cd1 EXCEPT !.replacement_stream = replacement,
                             !.send_op.send_message = replacement,
                             !.post_send = Closure("send_done", 0),
                             !.send_op.on_complete = Closure("send_done", 0)]
      IN grpc_call_next_op(
             [w EXCEPT !.calld = cd2,
                       !.compress = Compressed(@, cd, algorithm)],
             cd2.send_op, "send_op") :
         r \in grpc_msg_compress(algorithm, w.calld.slices)} :
       algorithm \in ReadAlgorithm(w.calld)}

finish_send_message(w) ==
    UNION {
     {LET cd == w.calld
          cd1 == IF r.did_compress # 0
                 THEN [cd EXCEPT !.slices = r.output,
                                 !.send_flags =
                                     @ \cup {GRPC_WRITE_INTERNAL_COMPRESS}]
                 ELSE cd
          replacement == grpc_slice_buffer_stream_init(
                             cd.send_op.send_message.id, cd1.slices,
                             cd1.send_flags)
          cd2 == [cd1 EXCEPT !.replacement_stream = replacement,
                             !.send_op.send_message = replacement,
                             !.post_send = cd1.send_op.on_complete,
                             !.send_op.on_complete = Closure("send_done", 0)]
      IN grpc_call_next_op(
             [w EXCEPT !.calld = cd2,
                       !.compress = Compressed(@, cd, algorithm)],
             cd2.send_op, "send_op") :
         r \in grpc_msg_compress(algorithm, w.calld.slices)} :
       algorithm \in ReadAlgorithm(w.calld)}

\* continue_send_message, were it to finish with the first slice it is
\* handed, whatever the buffer then holds
continue_send_message_finishes_at_once(w) ==
    UNION {IF r.ret # 0
           THEN finish_send_message(
                    [w EXCEPT !.stream = r.stream,
                              !.calld.incoming_slice = r.slice,
                              !.calld.slices = Append(@, r.slice)])
           ELSE {[w EXCEPT !.stream = r.stream]} :
           r \in grpc_byte_stream_next(w.stream)}

RECURSIVE continue_send_message(_)
continue_send_message(w) ==
    UNION {IF r.ret # 0
           THEN LET w1 == [w EXCEPT !.stream = r.stream,
                                    !.calld.incoming_slice = r.slice,
                                    !.calld.slices = Append(@, r.slice)]
                IN IF w1.calld.send_length = slices_length(w1.calld.slices)
                   THEN finish_send_message(w1)
                   ELSE continue_send_message(w1)
           ELSE {[w EXCEPT !.stream = r.stream]} :
           r \in grpc_byte_stream_next(w.stream)}

\* got_slice, were it to fall through to continue_send_message once it has
\* finished the message
got_slice_falls_through(w, success) ==
    LET w1 == [w EXCEPT !.calld.slices = Append(@, w.calld.incoming_slice)]
    IN IF w1.calld.send_length = slices_length(w1.calld.slices)
       THEN UNION {finish_send_message(w2) : w2 \in finish_send_message(w1)}
       ELSE continue_send_message(w1)

\* got_slice, were it to finish whatever the buffer holds
got_slice_finishes_early(w, success) ==
    finish_send_message(
        [w EXCEPT !.calld.slices = Append(@, w.calld.incoming_slice)])

\* got_slice: success is not read; the slice added is calld->incoming_slice,
\* which the stream has written (w.calld.incoming_slice, set by GotSlice)
got_slice(w, success) ==
    LET w1 == [w EXCEPT !.calld.slices = Append(@, w.calld.incoming_slice)]
    IN IF w1.calld.send_length = slices_length(w1.calld.slices)
       THEN finish_send_message(w1)
       ELSE continue_send_message(w1)

\* send_done, were it to leave the buffer as it is
send_done_keeps_buffer(cd, success) ==
    [calld |-> cd,
     call |-> [cb |-> cd.post_send, success |-> success,
               buffered |-> slices_length(cd.slices)]]

\* send_done, were it to call post_send with success whatever it was given
send_done_reports_success(cd, success) ==
    LET cd1 == [cd EXCEPT !.slices = <<>>]
    IN [calld |-> cd1,
        call |-> [cb |-> cd1.post_send, success |-> 1,
                  buffered |-> slices_length(cd1.slices)]]

\* send_done: the call data after it, and the call of post_send it makes
send_done(cd, success) ==
    LET cd1 == [cd EXCEPT !.slices = <<>>]
    IN [calld |-> cd1,
        call |-> [cb |-> cd1.post_send, success |-> success,
                  buffered |-> slices_length(cd1.slices)]]

\* a call of a closure of the caller, counted by the op the closure is of
Called(log, call) ==
    IF call.cb.fn = "on_complete" /\ call.cb.id \in DOMAIN log
    THEN [log EXCEPT ![call.cb.id] = @ + 1]
    ELSE log

\* compress_start_transport_stream_op, were it to build send_op from the
\* message and the closure of the op, and not to copy the op
compress_start_transport_stream_op_copies_message(w, ch, op, st) ==
    UNION {IF m.crashed
           THEN {[w EXCEPT !.calld = m.calld, !.crashed = TRUE]}
           ELSE LET op1 == [op EXCEPT !.send_initial_metadata = m.batch]
                    w1 == [w EXCEPT !.calld = m.calld,
                                    !.decided = m.calld.compression_algorithm,
                                    !.hinted = IF m.batch # NoBatch
                                               THEN m.batch[Len(m.batch) - 1]
                                               ELSE @]
                IN IF /\ op1.send_message # NoMessage
                      /\ ~skip_compression(w1.calld, ch)
                      /\ GRPC_WRITE_NO_COMPRESS \notin op1.send_message.flags
                   THEN continue_send_message(
                            [w1 EXCEPT
                                !.calld.send_op =
                                    [NoOp EXCEPT
                                        !.send_message = op1.send_message,
                                        !.on_complete = op1.on_complete],
                                !.calld.send_length = op1.send_message.length,
                                !.calld.send_flags = op1.send_message.flags,
                                !.stream = st])
                   ELSE {grpc_call_next_op(w1, op1, "op")} :
           m \in IF op.send_initial_metadata # NoBatch
                 THEN process_send_initial_metadata(
                          w.calld, ch, op.send_initial_metadata)
                 ELSE {[calld |-> w.calld, batch |-> NoBatch,
                        crashed |-> FALSE]}}

\* compress_start_transport_stream_op, for the op and the stream behind its
\* message (st)
compress_start_transport_stream_op(w, ch, op, st) ==
    UNION {IF m.crashed
           THEN {[w EXCEPT !.calld = m.calld, !.crashed = TRUE]}
           ELSE LET op1 == [op EXCEPT !.send_initial_metadata = m.batch]
                    w1 == [w EXCEPT !.calld = m.calld,
                                    !.decided = m.calld.compression_algorithm,
                                    !.hinted = IF m.batch # NoBatch
                                               THEN m.batch[Len(m.batch) - 1]
                                               ELSE @]
                IN IF /\ op1.send_message # NoMessage
                      /\ ~skip_compression(w1.calld, ch)
                      /\ GRPC_WRITE_NO_COMPRESS \notin op1.send_message.flags
                   THEN continue_send_message(
                            [w1 EXCEPT
                                !.calld.send_op = op1,
                                !.calld.send_length = op1.send_message.length,
                                !.calld.send_flags = op1.send_message.flags,
                                !.stream = st])
                   ELSE {grpc_call_next_op(w1, op1, "op")} :
           m \in IF op.send_initial_metadata # NoBatch
                 THEN process_send_initial_metadata(
                          w.calld, ch, op.send_initial_metadata)
                 ELSE {[calld |-> w.calld, batch |-> NoBatch,
                        crashed |-> FALSE]}}

(***************************************************************************)
(* The state machine: one channel, one call on it.                         *)
(*   down      the ops the next filter holds and has not completed         *)
(*   caller    how often the on_complete closure of each op was called     *)
(*   last_call the last call made of a closure of the caller               *)
(*   last_done the last completion by the next filter: the closure it      *)
(*             called (fn), the op's number (id), the success it gave      *)
(*   op_in     the op whose message is being drained, as the caller handed *)
(*             it in; decided_in: the call's algorithm when the filter     *)
(*             chose to drain it                                           *)
(*   crashed   the process has died; died_on: the op it died on            *)
(*   md_sent   the call's initial metadata has been sent                   *)
(*   msg_open  a send-message op has not completed (the call layer sends   *)
(*             one message at a time)                                      *)
(*   msg_compress the last call of grpc_msg_compress                       *)
(*   hinted    the element process_send_initial_metadata has added to the  *)
(*             call's initial metadata to name the algorithm (line 148)    *)
(*   destroyed what has been destroyed: "none", the "call", the "channel"  *)
(*   unreffed  the handles destroy_channel_elem has released, in order     *)
(***************************************************************************)
World == [calld |-> calld, stream |-> stream, down |-> down,
          crashed |-> crashed, from |-> op_in, decided |-> decided_in,
          compress |-> msg_compress, hinted |-> hinted]

\* a drain is suspended: continue_send_message has returned with the closure
\* registered, and finish_send_message has not run
Draining(st) == st.state \in {"registered", "ended"}

\* the ops the call layer hands to the filter as op number n
Messages(n) ==
    {[kind |-> "upstream", id |-> n, length |-> len, flags |-> flags,
      backing |-> <<>>] :
        len \in 0 .. MaxLength,
        flags \in SUBSET {GRPC_WRITE_BUFFER_HINT, GRPC_WRITE_NO_COMPRESS}}

\* (an op with neither takes line 236 and nothing else, and is left out)
Ops(n) ==
    {op \in
        {[send_initial_metadata |-> b, send_message |-> m,
          on_complete |-> Closure("on_complete", n), rest |-> rest] :
            b \in (IF md_sent THEN {} ELSE Batches) \cup {NoBatch},
            m \in (IF msg_open THEN {} ELSE Messages(n)) \cup {NoMessage},
            rest \in {"recv", "no recv"}} :
        op.send_initial_metadata # NoBatch \/ op.send_message # NoMessage}

NoCall == [cb |-> Closure("<null>", 0), success |-> 0, buffered |-> 0]
NoDone == [fn |-> "<null>", id |-> 0, success |-> 0]

Init ==
    /\ \E a \in ChannelArgs :
          chand = init_channel_elem(a.bitset, a.default_algorithm)
    /\ calld = init_call_elem
    /\ stream = IdleStream
    /\ down = {}
    /\ caller = [n \in 1 .. MaxOps |-> 0]
    /\ last_call = NoCall
    /\ last_done = NoDone
    /\ op_in = NoOp
    /\ decided_in = Uninitialized
    /\ nops = 0
    /\ md_sent = FALSE
    /\ msg_open = FALSE
    /\ crashed = FALSE
    /\ died_on = NoOp
    /\ destroyed = "none"
    /\ unreffed = <<>>
    /\ msg_compress = NoCompress
    /\ hinted = NoMdelem

\* the call layer starts an op: compress_start_transport_stream_op
StartOp ==
    /\ ~crashed
    /\ destroyed = "none"
    /\ nops < MaxOps
    /\ \E op \in Ops(nops + 1) :
          \E w \in compress_start_transport_stream_op(
                       [World EXCEPT !.from = op], chand, op,
                       OpenStream(op.send_message)) :
             /\ calld' = w.calld
             /\ stream' = w.stream
             /\ down' = w.down
             /\ crashed' = w.crashed
             /\ msg_compress' = w.compress
             /\ hinted' = w.hinted
             /\ died_on' = IF w.crashed THEN op ELSE died_on
             /\ op_in' = IF op.send_message # NoMessage /\ Draining(w.stream)
                            /\ ~w.crashed
                         THEN op
                         ELSE op_in
             /\ decided_in' = IF op.send_message # NoMessage
                                 /\ Draining(w.stream) /\ ~w.crashed
                              THEN w.decided
                              ELSE decided_in
             /\ md_sent' = (md_sent \/ op.send_initial_metadata # NoBatch)
             /\ msg_open' = (msg_open \/ op.send_message # NoMessage)
    /\ nops' = nops + 1
    /\ UNCHANGED <<chand, caller, last_call, last_done, destroyed, unreffed>>

\* the stream fires the registered closure: with the next slice written to
\* incoming_slice and success = 1, or with success = 0 and incoming_slice
\* holding whatever it held; then got_slice runs
GotSlice ==
    /\ ~crashed
    /\ destroyed = "none"
    /\ stream.state = "registered"
    /\ \E fired \in
            {[success |-> 1, slice |-> Slice("chunk", stream.chunks + 1, len),
              stream |-> Deliver(stream, len)] : len \in NextSliceLens(stream)}
            \cup {[success |-> 0, slice |-> Slice("garbage", 0, len),
                   stream |-> [stream EXCEPT !.state = "ended",
                                             !.failed = TRUE]] :
                      len \in 0 .. MaxLength} :
          \E w \in got_slice([World EXCEPT !.stream = fired.stream,
                                           !.calld.incoming_slice = fired.slice],
                             fired.success) :
             /\ calld' = w.calld
             /\ stream' = w.stream
             /\ down' = w.down
             /\ crashed' = w.crashed
             /\ msg_compress' = w.compress
             /\ op_in' = IF Draining(w.stream) THEN op_in ELSE NoOp
             /\ decided_in' = IF Draining(w.stream) THEN decided_in
                              ELSE Uninitialized
    /\ UNCHANGED <<chand, caller, last_call, last_done, nops, md_sent,
                   msg_open, died_on, destroyed, unreffed, hinted>>

\* The fields of the call data that hold one message's drain are written
\* before they are read again (send_op, send_length, send_flags at lines
\* 230-232, incoming_slice by the stream, replacement_stream at 184,
\* post_send at 187), so what they hold once the message has completed is
\* never seen: the model forgets it.
Forget(cd) ==
    [init_call_elem EXCEPT
        !.slices = cd.slices,
        !.compression_algorithm = cd.compression_algorithm,
        !.has_compression_algorithm = cd.has_compression_algorithm]

\* the next filter completes an op it holds: it calls the op's on_complete,
\* which is the caller's closure or, after a drain, send_done
Complete ==
    /\ ~crashed
    /\ destroyed = "none"
    /\ \E d \in down, success \in {0, 1} :
          LET op == d.op
              r == IF op.on_complete.fn = "send_done"
                   THEN send_done(calld, success)
                   ELSE [calld |-> calld,
                         call |-> [cb |-> op.on_complete, success |-> success,
                                   buffered |-> slices_length(calld.slices)]]
          IN /\ calld' = IF op.on_complete.fn = "send_done"
                         THEN Forget(r.calld)
                         ELSE r.calld
             /\ caller' = Called(caller, r.call)
             /\ last_call' = r.call
             /\ last_done' = [fn |-> op.on_complete.fn,
                              id |-> d.from.on_complete.id,
                              success |-> success]
             /\ down' = down \ {d}
             /\ msg_open' = (msg_open /\ op.send_message = NoMessage)
             /\ stream' = IF op.send_message = NoMessage THEN stream
                          ELSE IdleStream
    /\ UNCHANGED <<chand, op_in, decided_in, nops, md_sent, crashed,
                   died_on, destroyed, unreffed, msg_compress, hinted>>

\* the call is destroyed, once the call layer has no op outstanding on it:
\* destroy_call_elem
DestroyCall ==
    /\ ~crashed
    /\ destroyed = "none"
    /\ down = {}
    /\ ~msg_open
    /\ calld' = destroy_call_elem(calld)
    /\ destroyed' = "call"
    /\ UNCHANGED <<chand, stream, down, caller, last_call, last_done, op_in,
                   decided_in, nops, md_sent, msg_open, crashed, died_on,
                   unreffed, msg_compress, hinted>>

\* the channel is destroyed, after its call: destroy_channel_elem
DestroyChannel ==
    /\ ~crashed
    /\ destroyed = "call"
    /\ \E r \in destroy_channel_elem(chand) :
          /\ unreffed' = r.unreffed
          /\ crashed' = r.crashed
    /\ destroyed' = "channel"
    /\ UNCHANGED <<chand, calld, stream, down, caller, last_call, last_done,
                   op_in, decided_in, nops, md_sent, msg_open, died_on,
                   msg_compress, hinted>>

Next == StartOp \/ GotSlice \/ Complete \/ DestroyCall \/ DestroyChannel

Spec == Init /\ [][Next]_vars

\* the executor runs every closure that is scheduled, and the next filter
\* completes every op it is handed
FairSpec == Spec /\ WF_vars(GotSlice) /\ WF_vars(Complete)

(***************************************************************************)
(* What the properties read.                                               *)
(***************************************************************************)
IsRequest(md) == md.key = GRPC_COMPRESS_REQUEST_ALGORITHM_KEY
IsOther(md) == ~IsRequest(md)

Requests(batch) == IF batch = NoBatch THEN <<>> ELSE SelectSeq(batch, IsRequest)
Others(batch) == IF batch = NoBatch THEN <<>> ELSE SelectSeq(batch, IsOther)

\* the name the batch requests: that of its requested-algorithm entry (of the
\* last one, should a caller have put several)
RequestedName(batch) == Requests(batch)[Len(Requests(batch))].value[1]

RequestsAlgorithm(batch, algorithm) ==
    /\ Requests(batch) # <<>>
    /\ RequestedName(batch) = grpc_compression_algorithm_name(algorithm)

\* the batch requests a name that is no algorithm, or no enabled one
RequestsUnusable(batch) ==
    /\ Requests(batch) # <<>>
    /\ \A algorithm \in chand.enabled_algorithms_bitset :
          ~RequestsAlgorithm(batch, algorithm)

\* the ops the filter has been handed and that have not completed: as they
\* came in (from) and as they are now (op), in the call data while the
\* message is drained ("drain") and with the next filter afterwards
Handled ==
    {[from |-> d.from, op |-> d.op, via |-> d.via, decided |-> d.decided] :
        d \in down}
    \cup (IF Draining(stream)
          THEN {[from |-> op_in, op |-> calld.send_op, via |-> "drain",
                 decided |-> decided_in]}
          ELSE {})

\* the ops forwarded once their message was drained
Forwarded == {d \in down : d.via = "send_op"}

(***************************************************************************)
(* C1. For every enabled algorithm A, once process_send_initial_metadata   *)
(* has handled a batch whose requested-algorithm entry names A, the call   *)
(* has has_compression_algorithm set and compression_algorithm = A, the    *)
(* batch holds no requested-algorithm entry any more, and it is its other  *)
(* entries followed by the element precomputed for A and by the channel's  *)
(* accept-encoding element.                                                *)
(***************************************************************************)
C1_RequestedAlgorithmChosen ==
    \A h \in Handled, A \in chand.enabled_algorithms_bitset :
       RequestsAlgorithm(h.from.send_initial_metadata, A) =>
          /\ calld.has_compression_algorithm = 1
          /\ calld.compression_algorithm = A
          /\ Requests(h.op.send_initial_metadata) = <<>>
          /\ chand.mdelem_compression_algorithms[A] =
                mdelem("grpc-encoding", <<grpc_compression_algorithm_name(A)>>)
          /\ h.op.send_initial_metadata =
                Others(h.from.send_initial_metadata)
                \o <<chand.mdelem_compression_algorithms[A],
                     chand.mdelem_accept_encoding>>

\* an enabled algorithm that is not the default has been requested and chosen
C1_Witness ==
    \E h \in Handled :
       /\ RequestsAlgorithm(h.from.send_initial_metadata, GRPC_COMPRESS_GZIP)
       /\ GRPC_COMPRESS_GZIP \in chand.enabled_algorithms_bitset
       /\ chand.default_compression_algorithm = GRPC_COMPRESS_DEFLATE
       /\ calld.compression_algorithm = GRPC_COMPRESS_GZIP

(***************************************************************************)
(* C2. When the requested-algorithm entry names no algorithm, or one that  *)
(* is not enabled, the call's algorithm resolves to GRPC_COMPRESS_NONE and *)
(* the call proceeds: the op reaches the next filter and the process has   *)
(* not died.                                                               *)
(***************************************************************************)
C2_UnusableRequestFallsBack ==
    /\ \A h \in Handled :
          RequestsUnusable(h.from.send_initial_metadata) =>
             /\ calld.has_compression_algorithm = 1
             /\ calld.compression_algorithm = GRPC_COMPRESS_NONE
             /\ h.via = "op"
    /\ RequestsUnusable(died_on.send_initial_metadata) => ~crashed

(***************************************************************************)
(* C3. Once process_send_initial_metadata has handled a batch with no      *)
(* requested-algorithm entry, the call's algorithm is the channel's        *)
(* default_compression_algorithm, and messages are skipped or drained as   *)
(* that default says: skip_compression holds exactly when the default is   *)
(* GRPC_COMPRESS_NONE, and a message the same op carries is drained        *)
(* exactly when it is not and the message does not forbid it.              *)
(***************************************************************************)
C3_DefaultAlgorithmChosen ==
    \A h \in Handled :
       (h.from.send_initial_metadata # NoBatch
        /\ Requests(h.from.send_initial_metadata) = <<>>) =>
          /\ calld.has_compression_algorithm = 1
          /\ calld.compression_algorithm = chand.default_compression_algorithm
          /\ skip_compression(calld, chand)
                <=> chand.default_compression_algorithm = GRPC_COMPRESS_NONE
          /\ h.from.send_message # NoMessage =>
                (h.via \in {"drain", "send_op"}
                    <=> /\ chand.default_compression_algorithm
                              # GRPC_COMPRESS_NONE
                        /\ GRPC_WRITE_NO_COMPRESS
                              \notin h.from.send_message.flags)

\* a batch with no request has been handled on a channel whose default is a
\* real algorithm, and the message of the same op is drained
C3_Witness ==
    \E h \in Handled :
       /\ h.from.send_initial_metadata # NoBatch
       /\ Requests(h.from.send_initial_metadata) = <<>>
       /\ chand.default_compression_algorithm = GRPC_COMPRESS_GZIP
       /\ calld.compression_algorithm = GRPC_COMPRESS_GZIP
       /\ h.via = "send_op"

(***************************************************************************)
(* C4. The on_complete closure of an op is called exactly once: not at all *)
(* while the op is with the filter (its message being drained) or with the *)
(* next filter, and once, not twice, from the moment the next filter has   *)
(* completed it, whether its message was skipped, or drained at once or    *)
(* over several got_slice closures, compressed or not.                     *)
(***************************************************************************)
InFlight(n) ==
    \/ \E h \in Handled : h.from.on_complete.id = n
    \/ crashed /\ died_on.on_complete.id = n

Skipped(message, decided) ==
    \/ GRPC_WRITE_NO_COMPRESS \in message.flags
    \/ decided = GRPC_COMPRESS_NONE
    \/ /\ decided = Uninitialized
       /\ chand.default_compression_algorithm = GRPC_COMPRESS_NONE

C5_SkippedMessageUntouched ==
    \A h \in Handled :
       (h.from.send_message # NoMessage
        /\ Skipped(h.from.send_message, h.decided)) =>
          /\ h.via = "op"
          /\ h.op.send_message = h.from.send_message
          /\ h.op.on_complete = h.from.on_complete
          /\ calld.slices = <<>>
          /\ stream = IdleStream

\* a message is skipped for its flag alone, on a call that compresses
C5_Witness ==
    \E d \in down :
       /\ d.from.send_message # NoMessage
       /\ GRPC_WRITE_NO_COMPRESS \in d.from.send_message.flags
       /\ d.decided = GRPC_COMPRESS_GZIP
       /\ d.op.send_message = d.from.send_message

(***************************************************************************)
(* C6. A message of length 0 that is not skipped is forwarded at once: the *)
(* filter asks the stream for no slice and never suspends.                 *)
(***************************************************************************)
C6_EmptyMessageForwardedAtOnce ==
    (stream.state # "idle" /\ stream.length = 0) =>
       /\ stream.requests = 0
       /\ stream.suspended = 0
       /\ \E d \in Forwarded : d.from.send_message.id = stream.id

(***************************************************************************)
(* C7. A message of length N > 0 that is not skipped, whose stream hands   *)
(* out its N bytes in any number of slices, each at once or through the    *)
(* closure, and whose closures all fire: whenever a handler returns, the   *)
(* buffer holds the slices handed out so far and either the drain is       *)
(* suspended on a registered closure, short of N bytes and with nothing    *)
(* forwarded, or all N bytes are collected and the op has been forwarded,  *)
(* once; and a suspended drain leads to the op being forwarded.            *)
(***************************************************************************)
C7_DrainState ==
    (stream.state # "idle" /\ stream.length > 0 /\ ~Misbehaved(stream)) =>
       \/ /\ stream.state = "registered"
          /\ stream.delivered < stream.length
          /\ slices_length(calld.slices) = stream.delivered
          /\ Len(calld.slices) = stream.chunks
          /\ Forwarded = {}
       \/ /\ stream.state = "open"
          /\ stream.delivered = stream.length
          /\ Cardinality(Forwarded) = 1
          /\ \A d \in Forwarded :
                /\ d.from.send_message.id = stream.id
                /\ d.op.send_message.kind = "replacement"

C7_DrainsThenForwardsOnce ==
    /\ []C7_DrainState
    /\ (Draining(stream) /\ stream.length > 0 /\ ~Misbehaved(stream)
        /\ ~crashed)
          ~> (Forwarded # {} \/ Misbehaved(stream) \/ crashed)

\* a message has been forwarded after its drain took two slices and was
\* suspended and resumed
C7_Witness ==
    /\ Forwarded # {}
    /\ stream.length > 0
    /\ ~Misbehaved(stream)
    /\ stream.chunks >= 2
    /\ stream.suspended >= 1
    /\ stream.delivered = stream.length

(***************************************************************************)
(* C8. When the stream fires the closure with success = 0, the filter      *)
(* calls the op's own on_complete with success = 0 and neither compresses  *)
(* nor forwards the partly drained buffer.                                 *)
(***************************************************************************)
C8_UpstreamFailurePropagated ==
    stream.failed =>
       /\ Forwarded = {}
       /\ caller[stream.id] = 1
       /\ last_call.cb = Closure("on_complete", stream.id)
       /\ last_call.success = 0

(***************************************************************************)
(* C9. When the next filter completes an op forwarded after a drain, with  *)
(* success or not, send_done empties the call's buffer and then calls the  *)
(* on_complete the op came with, with the very success it was given.       *)
(***************************************************************************)
C9_SendDonePassesSuccess ==
    last_done.fn = "send_done" =>
       /\ last_call.cb = Closure("on_complete", last_done.id)
       /\ last_call.success = last_done.success
       /\ last_call.buffered = 0
       /\ stream = IdleStream => calld.slices = <<>>

\* the next filter has failed an op forwarded after a drain
C9_Witness ==
    /\ last_done.fn = "send_done"
    /\ last_done.success = 0
    /\ last_call.success = 0
    /\ last_call.cb.fn = "on_complete"

(***************************************************************************)
(* C10. When the stream ends before it has handed out the bytes it         *)
(* declared, the filter forwards what it has collected: the drain does not *)
(* stay suspended and the op reaches the next filter.                      *)
(***************************************************************************)
C10_UnderflowForwarded ==
    (stream.state = "ended" /\ ~stream.failed
     /\ stream.delivered < stream.length) =>
       \E d \in Forwarded : d.from.send_message.id = stream.id

(***************************************************************************)
(* C11. An op forwarded after a drain carries the flags of the incoming    *)
(* message, with GRPC_WRITE_INTERNAL_COMPRESS added exactly when           *)
(* grpc_msg_compress reported success (the replacement stream then reads   *)
(* the transform's output); when it declined, the replacement stream reads *)
(* the slices the upstream stream produced, in the order it produced them, *)
(* and the flags are those of the incoming message.                        *)
(***************************************************************************)
C11_InternalCompressIffCompressed ==
    \A d \in Forwarded :
       LET message == d.op.send_message
           incoming == d.from.send_message
           compressed == /\ Len(message.backing) = 1
                         /\ message.backing[1].tag = "compressed"
       IN /\ GRPC_WRITE_INTERNAL_COMPRESS \in message.flags <=> compressed
          /\ message.flags \ {GRPC_WRITE_INTERNAL_COMPRESS} = incoming.flags
          /\ ~compressed =>
                /\ Len(message.backing) = stream.chunks
                /\ \A i \in DOMAIN message.backing :
                      /\ message.backing[i].tag = "chunk"
                      /\ message.backing[i].n = i
                /\ slices_length(message.backing) = incoming.length

(***************************************************************************)
(* C12. Once the channel is destroyed, every handle init_channel_elem      *)
(* acquired (the three key strings, the element of each enabled algorithm, *)
(* the accept-encoding element) has been released exactly once, no other   *)
(* handle has been released, and the process has not died in               *)
(* destroy_channel_elem; for every bitset of enabled algorithms.           *)
(***************************************************************************)
Acquired ==
    {chand.mdstr_request_compression_algorithm_key,
     chand.mdstr_outgoing_compression_algorithm_key,
     chand.mdstr_compression_capabilities_key,
     chand.mdelem_accept_encoding}
    \cup {chand.mdelem_compression_algorithms[algorithm] :
             algorithm \in chand.enabled_algorithms_bitset}

C12_HandlesReleasedOnce ==
    destroyed = "channel" =>
       /\ ~crashed
       /\ \A handle \in Acquired :
             Cardinality({i \in DOMAIN unreffed : unreffed[i] = handle}) = 1
       /\ \A i \in DOMAIN unreffed : unreffed[i] \in Acquired

(***************************************************************************)
(* C13. Whenever grpc_msg_compress has been called, from the loop of       *)
(* continue_send_message or from got_slice, the buffer it was given held   *)
(* as many bytes as the message declared: the length of the incoming       *)
(* message, never less.                                                    *)
(***************************************************************************)
C13_CompressSeesFullMessage ==
    /\ msg_compress.calls > 0 => msg_compress.input = msg_compress.expected
    /\ \A d \in Forwarded :
          /\ msg_compress.id = d.from.send_message.id
          /\ msg_compress.input = d.from.send_message.length

\* the transform has been given a message of MaxLength bytes whose drain
\* was suspended and resumed by got_slice
C13_Witness ==
    /\ msg_compress.calls = 1
    /\ msg_compress.id = stream.id
    /\ msg_compress.input = MaxLength
    /\ stream.suspended >= 1
    /\ stream.chunks >= 2

(***************************************************************************)
(* C14. For each incoming send-message op, finish_send_message runs at     *)
(* most once: grpc_msg_compress is called, and the replacement stream      *)
(* built, at most once for the message, and the next filter holds at most  *)
(* one op for it, however the slices arrive, at once or through got_slice. *)
(***************************************************************************)
C14_FinishedAtMostOnce ==
    /\ msg_compress.calls <= 1
    /\ Cardinality(Forwarded) <= 1
    /\ \A n \in 1 .. MaxOps :
          Cardinality({d \in down : d.from.on_complete.id = n}) <= 1
    /\ \A d \in Forwarded :
          /\ msg_compress.id = d.from.send_message.id
          /\ d.op.send_message = calld.replacement_stream

\* a message has been forwarded whose slices came one at once and one
\* through got_slice
C14_Witness ==
    /\ Cardinality(Forwarded) = 1
    /\ msg_compress.calls = 1
    /\ stream.requests >= 2
    /\ stream.suspended = 1
    /\ stream.chunks = 2
    /\ ~stream.failed

(***************************************************************************)
(* C15. Whenever the filter has chosen between skipping and draining a     *)
(* message (line 228), the call's algorithm was resolved when it chose:    *)
(* has_compression_algorithm was set and compression_algorithm held an     *)
(* algorithm, whether the initial metadata came before the message, with   *)
(* it, or after it.                                                        *)
(***************************************************************************)
C15_ResolvedBeforeDecision ==
    \A h \in Handled :
       h.from.send_message # NoMessage =>
          /\ h.decided \in Algorithms
          /\ calld.has_compression_algorithm = 1

(***************************************************************************)
(* C16. From the moment a drain begins until its message completes, the    *)
(* buffer never holds more bytes than the message declared, however the    *)
(* stream splits the message into slices.                                  *)
(***************************************************************************)
C16_BufferWithinLength ==
    stream.state # "idle" =>
       /\ calld.send_length = stream.length
       /\ slices_length(calld.slices) <= calld.send_length

(***************************************************************************)
(* C17. For every message forwarded after a drain, the algorithm           *)
(* finish_send_message gave to grpc_msg_compress is the one named by the   *)
(* grpc-encoding element the filter added to the call's initial metadata.  *)
(***************************************************************************)
C17_CompressesAsHinted ==
    (msg_compress.calls > 0 /\ hinted # NoMdelem) =>
       hinted = mdelem("grpc-encoding",
                       <<grpc_compression_algorithm_name(
                             msg_compress.algorithm)>>)

(***************************************************************************)
(* C18. The call's buffer is empty whenever no message is in progress on   *)
(* the call, and so it is empty at the step in which a drain begins,       *)
(* whatever became of the messages before it: skipped, compressed or not,  *)
(* completed by the next filter with success or without.                   *)
(***************************************************************************)
C18_BufferEmptyAtDrainStart ==
    /\ [](~msg_open => calld.slices = <<>>)
    /\ [][(nops' = nops + 1 /\ stream'.id = nops') =>
             calld.slices = <<>>]_vars

\* the drain of a second message has begun after a first message was
\* drained, forwarded and failed by the next filter
C18_Witness ==
    /\ nops = 2
    /\ stream.id = 2
    /\ stream.state # "idle"
    /\ last_done = [fn |-> "send_done", id |-> 1, success |-> 0]

(***************************************************************************)
(* C19. Once the call's algorithm is resolved it is one the channel has    *)
(* enabled, and the element added to the initial metadata to name it is    *)
(* one init_channel_elem has built; for every bitset init_channel_elem     *)
(* accepts and every requested name, unknown and disabled names included.  *)
(***************************************************************************)
C19_ChosenAlgorithmEnabled ==
    /\ calld.has_compression_algorithm = 1 =>
          calld.compression_algorithm \in chand.enabled_algorithms_bitset
    /\ hinted # NoMdelem =>
          \E algorithm \in chand.enabled_algorithms_bitset :
             hinted = mdelem("grpc-encoding",
                             <<grpc_compression_algorithm_name(algorithm)>>)

(***************************************************************************)
(* C20. The op forwarded after a drain is the incoming op with its         *)
(* send_message replaced by the replacement stream and its on_complete by  *)
(* send_done, and nothing else changed: it carries the op's other fields,  *)
(* and the send_initial_metadata batch the op came with, as                *)
(* process_send_initial_metadata left it, in that one op; the closure      *)
(* saved in post_send, which send_done calls, is the on_complete the op    *)
(* came with.                                                              *)
(***************************************************************************)
Negotiated(batch) ==
    IF batch = NoBatch THEN NoBatch
    ELSE Others(batch) \o <<hinted, chand.mdelem_accept_encoding>>

C20_ForwardedOpFrame ==
    /\ \A d \in Forwarded :
          /\ d.op = [d.from EXCEPT
                        !.send_initial_metadata = Negotiated(@),
                        !.send_message = calld.replacement_stream,
                        !.on_complete = Closure("send_done", 0)]
          /\ d.op.send_message.kind = "replacement"
          /\ calld.post_send = d.from.on_complete
    /\ last_done.fn = "send_done" =>
          last_call.cb = Closure("on_complete", last_done.id)

\* an op that carries a batch with an entry of the caller, and other
\* fields, has been forwarded with its message compressed
C20_Witness ==
    \E d \in Forwarded :
       /\ d.from.send_initial_metadata = <<mdelem("user-key", <<"v">>)>>
       /\ d.from.rest = "recv"
       /\ d.op.rest = "recv"
       /\ Len(d.op.send_initial_metadata) = 3
       /\ GRPC_WRITE_INTERNAL_COMPRESS \in d.op.send_message.flags

====
